---------------------------- MODULE Spec2Model ----------------------------
(***************************************************************************)
(* Mastermind (src/project.py): the three top-level functions              *)
(* generate_code, check_guess and format_feedback, and the game state that *)
(* MastermindGUI keeps (secret, current_try, rows, game_over) with its     *)
(* handlers _palette_click, _reveal_win/_reveal_loss and _reset_game.      *)
(*                                                                         *)
(* Python lists are sequences; a list index i of the source is i + 1 here. *)
(* A call of a function is the pair [raised, value]: raised is the name of *)
(* the exception that escapes ("none" when it returns), value the result.  *)
(***************************************************************************)
EXTENDS Integers, Sequences, FiniteSets

VARIABLES
    secret,        \* self.secret
    current_try,   \* self.current_try
    rows,          \* self.rows: guess_state, solved, and the feedback pegs drawn
    game_over,     \* self.game_over
    status_label,  \* the number shown by self.status_label ("n / MAX_TRIES")
    pc,            \* "idle", or the modal dialog _palette_click is blocked in
    exit,          \* where the last handler left off
    raised,        \* the exception that escaped the last handler, or "none"
    call           \* a call of one of the top-level functions, and its outcome

vars == <<secret, current_try, rows, game_over, status_label, pc, exit, raised, call>>
gameVars == <<secret, current_try, rows, game_over, status_label, pc, exit, raised>>

---------------------------------------------------------------------------
(* Bounds of the model. The program has CODE_LENGTH = 4, MAX_TRIES = 10     *)
(* and a palette of 6 colours (src/project.py:43,44,33); the model keeps   *)
(* the code and scales these down: shorter codes, fewer rows, and a        *)
(* palette of two of the six colours.                                      *)

CODE_LENGTH == 2
MAX_TRIES == 3
COLORS == {"A", "B"}

\* fb_items: the feedback block is 2 x 2 small pegs, whatever CODE_LENGTH is
FB_ITEMS == 4

\* The top-level functions are called, as test_project.py calls them, with
\* lists of length 0..MaxLen over Tokens and integers in -1..MaxLen + 1,
\* and with the lists and numbers of the tests themselves.
MaxLen == 3
NumTokens == 3
AllTokens == <<"A", "B", "C", "D", "X", "E">>
Tokens == {AllTokens[i] : i \in 1..NumTokens}

None == "None"
Lightgray == "lightgray"

Min(a, b) == IF a <= b THEN a ELSE b
Rep(x, n) == [i \in 1..n |-> x]          \* [x] * n; the empty list when n <= 0

Return(v) == [raised |-> "none", value |-> v]
Raise(e) == [raised |-> e, value |-> <<>>]

---------------------------------------------------------------------------
(* generate_code: every list random.choice can produce. range(length) is   *)
(* empty for length < 1, so no element is drawn; random.choice of an empty *)
(* sequence raises IndexError.                                             *)

\* range(length - 1): a code one colour short
generate_code_short(colors, length) ==
    IF length - 1 < 1 THEN {Return(<<>>)}
    ELSE IF colors = {} THEN {Raise("IndexError")}
    ELSE {Return(c) : c \in [1..(length - 1) -> colors]}

generate_code(colors, length) ==
    IF length < 1 THEN {Return(<<>>)}
    ELSE IF colors = {} THEN {Raise("IndexError")}
    ELSE {Return(c) : c \in [1..length -> colors]}

---------------------------------------------------------------------------
(* check_guess *)

RECURSIVE count(_, _)
count(list, c) ==                        \* list.count(c)
    IF list = <<>> THEN 0
    ELSE (IF Head(list) = c THEN 1 ELSE 0) + count(Tail(list), c)

RECURSIVE zip_equal(_, _)
zip_equal(s, g) ==                       \* sum(s == g for s, g in zip(secret, guess))
    IF s = <<>> \/ g = <<>> THEN 0
    ELSE (IF Head(s) = Head(g) THEN 1 ELSE 0) + zip_equal(Tail(s), Tail(g))

set_of(list) == {list[i] : i \in DOMAIN list}

RECURSIVE sum_min(_, _, _)
sum_min(s, g, cs) ==                     \* sum(min(s.count(c), g.count(c)) for c in cs)
    IF cs = {} THEN 0
    ELSE LET c == CHOOSE x \in cs : TRUE
         IN  Min(count(s, c), count(g, c)) + sum_min(s, g, cs \ {c})

RECURSIVE in_secret(_, _)
in_secret(s, g) ==                       \* sum(c in secret for c in guess)
    IF g = <<>> THEN 0
    ELSE (IF count(s, Head(g)) > 0 THEN 1 ELSE 0) + in_secret(s, Tail(g))

\* every guess peg whose colour occurs in the secret counts, however often
total_matches_naive(s, g) == in_secret(s, g)

RECURSIVE sum_min_list(_, _, _)
sum_min_list(s, g, l) ==                 \* sum(min(...) for c in guess), no set()
    IF l = <<>> THEN 0
    ELSE Min(count(s, Head(l)), count(g, Head(l))) + sum_min_list(s, g, Tail(l))

\* the colours of the guess taken once per peg instead of once per colour
total_matches_no_set(s, g) == sum_min_list(s, g, g)

total_matches(s, g) == sum_min(s, g, set_of(g))

check_guess(s, g) ==
    IF Len(s) # Len(g) THEN Raise("ValueError")
    ELSE LET black == zip_equal(s, g)
             white == total_matches(s, g) - black
         IN  Return(<<black, white>>)

---------------------------------------------------------------------------
(* format_feedback *)

\* the white markers put before the black ones
format_feedback_white_first(black, white, length) ==
    IF black < 0 \/ white < 0 \/ black + white > length THEN Raise("ValueError")
    ELSE Return(Rep("white", white) \o Rep("black", black)
                    \o Rep("empty", length - black - white))

format_feedback(black, white, length) ==
    IF black < 0 \/ white < 0 \/ black + white > length THEN Raise("ValueError")
    ELSE Return(Rep("black", black) \o Rep("white", white)
                    \o Rep("empty", length - black - white))

---------------------------------------------------------------------------
(* MastermindGUI. The handlers run one at a time on Tk's event loop. The   *)
(* win and loss dialogs (messagebox.askyesno) are modal: _palette_click    *)
(* waits in them, and no palette click is delivered until they are         *)
(* answered. The welcome dialog and the fullscreen toggle touch no state.  *)

NewRow == [guess_state |-> Rep(None, CODE_LENGTH),
           solved |-> FALSE,
           fb |-> Rep(Lightgray, FB_ITEMS)]

create_rows == Rep(NewRow, MAX_TRIES)

NoCall == [fn |-> "none", args |-> <<>>, out |-> [raised |-> "pending", value |-> <<>>]]

\* __init__
Init ==
    /\ \E r \in generate_code(COLORS, CODE_LENGTH) :
          /\ r.raised = "none"
          /\ secret = r.value
    /\ current_try = 0
    /\ rows = create_rows
    /\ game_over = FALSE
    /\ status_label = 1
    /\ pc = "idle"
    /\ exit = "init"
    /\ raised = "none"
    /\ call = NoCall

\* row["guess_state"].index(None), 0-based; -1 stands for the ValueError caught
first_empty(gs) ==
    IF \E i \in DOMAIN gs : gs[i] = None
    THEN (CHOOSE i \in DOMAIN gs : gs[i] = None /\ \A j \in 1..(i - 1) : gs[j] # None) - 1
    ELSE -1

\* _draw_feedback: fb_items[i] is coloured for each i of the feedback list
draw_feedback(fb, feedback) ==
    [i \in DOMAIN fb |-> IF i <= Len(feedback) THEN feedback[i] ELSE fb[i]]

\* the guards of _palette_click, each with a slip
click_ignored_never == FALSE                 \* the game_over check left out
is_solved_lax(black) == black >= CODE_LENGTH - 1
out_of_tries_early(t) == t >= MAX_TRIES - 1
out_of_tries_late(t) == t > MAX_TRIES

\* the guards of _palette_click
click_ignored == game_over                   \* if self.game_over: return
is_solved(black) == black = CODE_LENGTH      \* if black == CODE_LENGTH
out_of_tries(t) == t >= MAX_TRIES            \* if self.current_try >= MAX_TRIES

Leave(where, exc) == exit' = where /\ raised' = exc

PaletteClick(color) ==
    /\ pc = "idle"
    /\ call' = call
    /\ IF click_ignored
       THEN /\ Leave("game_over", "none")
            /\ UNCHANGED <<secret, current_try, rows, game_over, status_label, pc>>
       ELSE IF current_try + 1 \notin DOMAIN rows
       THEN /\ Leave("rows_index", "IndexError")
            /\ UNCHANGED <<secret, current_try, rows, game_over, status_label, pc>>
       ELSE
       LET row == rows[current_try + 1]
           pos == first_empty(row.guess_state)
       IN
       IF pos = -1
       THEN /\ Leave("row_full", "none")
            /\ UNCHANGED <<secret, current_try, rows, game_over, status_label, pc>>
       ELSE
       LET gs == [row.guess_state EXCEPT ![pos + 1] = color]
           filled == [row EXCEPT !.guess_state = gs]
       IN
       IF \E i \in DOMAIN gs : gs[i] = None
       THEN /\ rows' = [rows EXCEPT ![current_try + 1] = filled]
            /\ Leave("filled", "none")
            /\ UNCHANGED <<secret, current_try, game_over, status_label, pc>>
       ELSE
       LET score == check_guess(secret, gs) IN
       IF score.raised # "none"
       THEN /\ rows' = [rows EXCEPT ![current_try + 1] = filled]
            /\ Leave("check_guess", score.raised)
            /\ UNCHANGED <<secret, current_try, game_over, status_label, pc>>
       ELSE
       LET black == score.value[1]
           white == score.value[2]
           fb == format_feedback(black, white, CODE_LENGTH)
       IN
       IF fb.raised # "none"
       THEN /\ rows' = [rows EXCEPT ![current_try + 1] = filled]
            /\ Leave("format_feedback", fb.raised)
            /\ UNCHANGED <<secret, current_try, game_over, status_label, pc>>
       ELSE IF Len(fb.value) > FB_ITEMS
       THEN /\ rows' = [rows EXCEPT ![current_try + 1] = filled]
            /\ Leave("draw_feedback", "IndexError")
            /\ UNCHANGED <<secret, current_try, game_over, status_label, pc>>
       ELSE
       LET drawn == [filled EXCEPT !.fb = draw_feedback(row.fb, fb.value)] IN
       IF is_solved(black)
       THEN /\ rows' = [rows EXCEPT ![current_try + 1] = [drawn EXCEPT !.solved = TRUE]]
            /\ game_over' = TRUE
            /\ pc' = "reveal_win"
            /\ Leave("reveal_win", "none")
            /\ UNCHANGED <<secret, current_try, status_label>>
       ELSE
            /\ rows' = [rows EXCEPT ![current_try + 1] = drawn]
            /\ current_try' = current_try + 1
            /\ IF out_of_tries(current_try + 1)
               THEN /\ game_over' = TRUE
                    /\ pc' = "reveal_loss"
                    /\ Leave("reveal_loss", "none")
                    /\ UNCHANGED <<secret, status_label>>
               ELSE /\ status_label' = current_try + 1 + 1
                    /\ Leave("next_row", "none")
                    /\ UNCHANGED <<secret, game_over, pc>>

\* the solved flag left as it was
cleared_keeps_solved(row) == [row EXCEPT !.guess_state = Rep(None, CODE_LENGTH),
                                         !.fb = Rep(Lightgray, Len(row.fb))]

cleared(row) == [row EXCEPT !.guess_state = Rep(None, CODE_LENGTH),
                            !.fb = Rep(Lightgray, Len(row.fb)),
                            !.solved = FALSE]

reset_game ==
    /\ \E r \in generate_code(COLORS, CODE_LENGTH) :
          /\ r.raised = "none"
          /\ secret' = r.value
    /\ current_try' = 0
    /\ game_over' = FALSE
    /\ rows' = [i \in DOMAIN rows |-> cleared(rows[i])]
    /\ status_label' = 0 + 1

\* messagebox.askyesno returns True in _reveal_win / _reveal_loss
PlayAgain ==
    /\ pc \in {"reveal_win", "reveal_loss"}
    /\ reset_game
    /\ pc' = "idle"
    /\ Leave("reset", "none")
    /\ call' = call

\* messagebox.askyesno returns False: the handler returns, the game stays over
Decline ==
    /\ pc \in {"reveal_win", "reveal_loss"}
    /\ pc' = "idle"
    /\ Leave("declined", "none")
    /\ UNCHANGED <<secret, current_try, rows, game_over, status_label, call>>

Click == \E color \in COLORS : PaletteClick(color)

---------------------------------------------------------------------------
(* The functions called on their own (test_project.py imports them without *)
(* constructing a MastermindGUI): a call is pending, then has its outcome. *)

Lists == UNION {[1..k -> Tokens] : k \in 0..MaxLen}
Ints == -1..(MaxLen + 1)

AABB == <<"A", "A", "B", "B">>
AAAA == <<"A", "A", "A", "A">>
ABCD == <<"A", "B", "C", "D">>
ACBX == <<"A", "C", "B", "X">>

check_guess_inputs ==
    {<<s, g>> : s \in Lists, g \in Lists} \cup {<<AABB, AAAA>>, <<ABCD, ACBX>>, <<ABCD, ABCD>>}
format_feedback_inputs ==
    {<<b, w, n>> : b \in Ints, w \in Ints, n \in Ints} \cup {<<2, 1, 4>>}
generate_code_inputs ==
    {<<cs, n>> : cs \in SUBSET Tokens, n \in Ints}

Pending == [raised |-> "pending", value |-> <<>>]

InitCalls ==
    /\ secret = <<>>
    /\ current_try = 0
    /\ rows = <<>>
    /\ game_over = FALSE
    /\ status_label = 0
    /\ pc = "no_gui"
    /\ exit = "none"
    /\ raised = "none"
    /\ \/ \E a \in check_guess_inputs : call = [fn |-> "check_guess", args |-> a, out |-> Pending]
       \/ \E a \in format_feedback_inputs : call = [fn |-> "format_feedback", args |-> a, out |-> Pending]
       \/ \E a \in generate_code_inputs : call = [fn |-> "generate_code", args |-> a, out |-> Pending]

IsPending(fn) == call.fn = fn /\ call.out = Pending

CallCheckGuess ==
    /\ IsPending("check_guess")
    /\ call' = [call EXCEPT !.out = check_guess(call.args[1], call.args[2])]
    /\ UNCHANGED gameVars

CallFormatFeedback ==
    /\ IsPending("format_feedback")
    /\ call' = [call EXCEPT !.out = format_feedback(call.args[1], call.args[2], call.args[3])]
    /\ UNCHANGED gameVars

CallGenerateCode ==
    /\ IsPending("generate_code")
    /\ \E r \in generate_code(call.args[1], call.args[2]) : call' = [call EXCEPT !.out = r]
    /\ UNCHANGED gameVars

Done(fn) == call.fn = fn /\ call.out # Pending

---------------------------------------------------------------------------

Next ==
    \/ Click
    \/ PlayAgain
    \/ Decline
    \/ CallCheckGuess
    \/ CallFormatFeedback
    \/ CallGenerateCode

Spec == (Init \/ InitCalls) /\ [][Next]_vars

---------------------------------------------------------------------------
(* What the claims speak of, stated apart from the code's way of computing *)
(* it.                                                                     *)

HasGui == pc # "no_gui"

IsFull(gs) == \A i \in DOMAIN gs : gs[i] # None
FullRows == {i \in DOMAIN rows : IsFull(rows[i].guess_state)}

\* the session's outcome, read off game_over and the rows' solved flags
Outcome ==
    IF ~game_over THEN "InProgress"
    ELSE IF \E i \in DOMAIN rows : rows[i].solved THEN "Won"
    ELSE "Lost"

\* positions where secret and guess agree
ExactMatches(s, g) == Cardinality({i \in DOMAIN s : s[i] = g[i]})

\* the slots of list that hold colour c, exact matches left out
Loose(list, other, c) == {i \in DOMAIN list : list[i] = c /\ list[i] # other[i]}

RECURSIVE SumOver(_, _, _, _)
SumOver(cs, s, g, n) ==
    IF cs = {} THEN n
    ELSE LET c == CHOOSE x \in cs : TRUE
         IN  SumOver(cs \ {c}, s, g,
                     n + Min(Cardinality(Loose(s, g, c)), Cardinality(Loose(g, s, c))))

\* the most pairs (secret slot, guess slot) of one colour that can be formed
\* from the slots that are no exact match, no slot used twice
ColorMatches(s, g) == SumOver(set_of(s) \cup set_of(g), s, g, 0)

\* the row completed by this step, if any
CompletedNow(i) ==
    /\ i \in DOMAIN rows /\ i \in DOMAIN rows'
    /\ ~IsFull(rows[i].guess_state)
    /\ IsFull(rows'[i].guess_state)

Codes == [1..CODE_LENGTH -> COLORS]

\* occurrences of colour c in list
CountIn(list, c) == Cardinality({i \in DOMAIN list : list[i] = c})

RECURSIVE MultisetMeet(_, _, _)
MultisetMeet(cs, s, g) ==
    IF cs = {} THEN 0
    ELSE LET c == CHOOSE x \in cs : TRUE
         IN  Min(CountIn(s, c), CountIn(g, c)) + MultisetMeet(cs \ {c}, s, g)

---------------------------------------------------------------------------
(* The claims. *)

\* C1: the session becomes Won exactly by a step that completes a guess agreeing
\* with the secret in all CODE_LENGTH positions, whichever row it fills (the
\* last one included); and it is Won exactly while such a row stands.
C1_WonIffAllExact ==
    /\ [](HasGui =>
            (Outcome = "Won" <=>
               \E i \in FullRows : ExactMatches(secret, rows[i].guess_state) = CODE_LENGTH))
    /\ [][(Outcome' = "Won" /\ Outcome # "Won") <=>
            (HasGui /\ Outcome = "InProgress" /\
               \E i \in DOMAIN rows :
                  CompletedNow(i) /\ ExactMatches(secret, rows'[i].guess_state) = CODE_LENGTH)]_vars

\* won with the guess that fills the last row
C1_Witness == Outcome = "Won" /\ current_try = MAX_TRIES - 1 /\ rows[MAX_TRIES].solved

\* C2: the session is Lost exactly when all MAX_TRIES rows hold a complete guess
\* and none of them matches the secret in every position; it becomes Lost by
\* the step that completes the last row without winning, and by no other.
C2_LostIffExhausted ==
    /\ [](HasGui =>
            (Outcome = "Lost" <=>
               /\ Cardinality(FullRows) = MAX_TRIES
               /\ \A i \in FullRows : ExactMatches(secret, rows[i].guess_state) < CODE_LENGTH))
    /\ [][(Outcome' = "Lost" /\ Outcome # "Lost") <=>
            (/\ HasGui /\ Outcome = "InProgress"
             /\ Cardinality(FullRows) = MAX_TRIES - 1
             /\ CompletedNow(MAX_TRIES)
             /\ ExactMatches(secret, rows'[MAX_TRIES].guess_state) < CODE_LENGTH)]_vars

C2_Witness == Outcome = "Lost" /\ pc = "reveal_loss" /\ current_try = MAX_TRIES

\* C3 as the spec states it: a palette click in a finished game fails with
\* GameOver and changes neither rows, attempt index, outcome nor secret.
C3_FailsWithGameOver ==
    [][(HasGui /\ game_over /\ pc = "idle") =>
         (raised' = "GameOver" /\ UNCHANGED <<rows, current_try, game_over, secret>>)]_vars

\* C3, amended: a palette click in a finished game is ignored without any error
\* and changes neither rows, attempt index, outcome nor secret.
C3_IgnoredSilently ==
    [][(HasGui /\ game_over /\ pc = "idle") =>
         (raised' = "none" /\ UNCHANGED <<rows, current_try, game_over, secret, status_label>>)]_vars

\* a click was ignored in a lost game, after "play again" was declined
C3_Witness == exit = "game_over" /\ game_over /\ Outcome = "Lost"

\* C4: right after _reset_game the game is in progress, the attempt index is 0,
\* all MAX_TRIES rows are empty and unsolved, and the secret is a code of
\* CODE_LENGTH palette colours.
C4_ResetClears ==
    exit = "reset" =>
        /\ Outcome = "InProgress" /\ ~game_over
        /\ current_try = 0
        /\ Len(rows) = MAX_TRIES
        /\ \A i \in DOMAIN rows :
              /\ rows[i].guess_state = [k \in 1..CODE_LENGTH |-> None]
              /\ ~rows[i].solved
        /\ secret \in Codes

C4_Witness == exit = "reset" /\ pc = "idle"

\* C5: for lists of equal length check_guess returns (exact, color): exact the
\* number of positions that agree, color the sum over the colours of
\* min(count in secret, count in guess) less exact, which is the number of
\* further same-colour pairs among the slots that are no exact match; and the
\* three worked examples give (2,0), (1,2) and (4,0).
C5_CheckGuessCounts ==
    (Done("check_guess") /\ Len(call.args[1]) = Len(call.args[2])) =>
        LET s == call.args[1]
            g == call.args[2]
        IN  /\ call.out.raised = "none"
            /\ call.out.value[1] = ExactMatches(s, g)
            /\ call.out.value[2] =
                  MultisetMeet(set_of(s) \cup set_of(g), s, g) - ExactMatches(s, g)
            /\ call.out.value[2] = ColorMatches(s, g)
            /\ (s = AABB /\ g = AAAA) => call.out.value = <<2, 0>>
            /\ (s = ABCD /\ g = ACBX) => call.out.value = <<1, 2>>
            /\ (s = ABCD /\ g = ABCD) => call.out.value = <<4, 0>>

C5_Witness ==
    Done("check_guess") /\ call.args = <<AABB, AAAA>> /\ call.out = Return(<<2, 0>>)

\* C6: for lists of equal length the counts of check_guess are both >= 0 and
\* sum to at most the length; and in the game neither check_guess nor
\* format_feedback ever raises when a completed row is scored.
C6_CountsInRange ==
    /\ (Done("check_guess") /\ Len(call.args[1]) = Len(call.args[2])) =>
          /\ call.out.raised = "none"
          /\ call.out.value[1] >= 0
          /\ call.out.value[2] >= 0
          /\ call.out.value[1] + call.out.value[2] <= Len(call.args[1])
    /\ HasGui =>
          /\ exit \notin {"check_guess", "format_feedback"}
          /\ raised # "ValueError"
          /\ \A i \in FullRows : rows[i].fb[1] # Lightgray

\* a row was scored in the game with a colour-only match, and the game went on
C6_Witness == exit = "next_row" /\ rows[1].fb[1] = "white"

\* C7: for counts >= 0 that sum to at most length, format_feedback returns
\* length markers: black times "black", then white times "white", then
\* "empty"; format_feedback(2, 1, 4) is black, black, white, empty.
C7_FeedbackLayout ==
    Done("format_feedback") =>
        LET b == call.args[1]
            w == call.args[2]
            n == call.args[3]
        IN  /\ (b >= 0 /\ w >= 0 /\ b + w <= n) =>
                  /\ call.out.raised = "none"
                  /\ Len(call.out.value) = n
                  /\ \A i \in 1..n :
                        call.out.value[i] = IF i <= b THEN "black"
                                            ELSE IF i <= b + w THEN "white"
                                            ELSE "empty"
            /\ call.args = <<2, 1, 4>> =>
                  call.out.value = <<"black", "black", "white", "empty">>

C7_Witness ==
    Done("format_feedback") /\ call.args = <<2, 1, 4>> /\ call.out.raised = "none"

\* C8 as the spec states it: generate_code called with length < 1 or with an
\* empty palette fails (with whatever exception) and returns no code.
C8_RejectsBadArguments ==
    (Done("generate_code") /\ (call.args[2] < 1 \/ call.args[1] = {})) =>
        call.out.raised # "none"

\* C9: for length >= 1 and a palette that is not empty, generate_code returns
\* a list of exactly length elements, each a member of the palette.
C9_CodeOverPalette ==
    /\ (Done("generate_code") /\ call.args[2] >= 1 /\ call.args[1] # {}) =>
          /\ call.out.raised = "none"
          /\ Len(call.out.value) = call.args[2]
          /\ \A i \in DOMAIN call.out.value : call.out.value[i] \in call.args[1]
    /\ HasGui => secret \in Codes

\* a code with a repeated colour, from a palette of several
C9_Witness ==
    /\ Done("generate_code") /\ call.args[2] = MaxLen /\ Cardinality(call.args[1]) >= 2
    /\ call.out.value[1] = call.out.value[2] /\ call.out.value[1] # call.out.value[3]

\* C10: while the game is not over 0 <= current_try < MAX_TRIES, so that
\* rows[current_try] exists; current_try is MAX_TRIES only in a game that is
\* over, and never more.
C10_TryInRange ==
    HasGui =>
        /\ current_try \in 0..MAX_TRIES
        /\ ~game_over => (current_try < MAX_TRIES /\ current_try + 1 \in DOMAIN rows)
        /\ current_try = MAX_TRIES => game_over
        /\ raised # "IndexError"

\* a click after "play again" was declined in a lost game
C10_Witness ==
    current_try = MAX_TRIES /\ pc = "idle" /\ exit = "game_over" /\ raised = "none"

===========================================================================
